---- MODULE Spec2Model ----
(***************************************************************************)
(* codera1d-server: the code-space engine (src/src/raid.rs, struct Raid)   *)
(* and the registry of named raids behind one Mutex (src/src/main.rs).     *)
(*                                                                         *)
(* Seven specifications share the variables:                               *)
(*   EngineSpec   drives one Raid (raid) directly through its pub methods, *)
(*                as the unit tests of raid.rs do; ret is the last call;   *)
(*   SkewSpec     does the same under a clock that may be set backwards;   *)
(*   ExhaustSpec  calls reserve_codes with one count until nothing is left;*)
(*   LiveSpec     is one Raid under workers that reserve and try for ever, *)
(*                with fairness on the clock and on their requests;        *)
(*   Spec         serves the requests of main.rs one after the other on    *)
(*                one worker thread;                                       *)
(*   SweepSpec    does so for two raids that both hand out reservations;   *)
(*   ConcSpec     serves them on two worker threads that contend for the   *)
(*                registry Mutex.                                          *)
(* raids is the RaidMap in memory, disk the contents of data/raids.bin,    *)
(* pc/req/resp the position, request and response of each worker thread;   *)
(* stale[t] records that the raid named in t's request was deleted or      *)
(* swept while t's response was on its way.                                *)
(* Time is counted in minutes (Duration::minutes(1) is one unit).          *)
(***************************************************************************)
EXTENDS Integers, Sequences, FiniteSets, TLC

VARIABLES raid, ret, now, raids, disk, saveFails, poisoned, mutex, pc, req, resp, stale

vars == <<raid, ret, now, raids, disk, saveFails, poisoned, mutex, pc, req, resp, stale>>

(* ------------------------------ bounds --------------------------------- *)
\* size of the code universe (10_000 in raid.rs, scaled down)
NumCodes == 5
\* the clock stops advancing here
MaxTime == 2
\* cap on the length of code_reservations of one raid
MaxRes == 2
\* how many times writing data/raids.bin may fail in one run
MaxSaveFails == 1

(* --------------------------- code list --------------------------------- *)
\* head of pin_codes.csv: index 0 is "1234" (tests::test_code_index_to_string),
\* indices 1..4 follow the documented order; the entries after them stand for
\* further distinct codes of the file
PinCodesCsv == <<"1234", "1111", "0000", "1212", "7777", "1004", "2000", "4444">>

PIN_CODE_LIST == SubSeq(PinCodesCsv, 1, NumCodes)

CodeIdx == 0 .. (Len(PIN_CODE_LIST) - 1)

code_index_to_string(code_idx) == PIN_CODE_LIST[code_idx + 1]

\* does .find(..) of string_to_code_index yield Some
InCodeList(code_str) == \E i \in 1 .. Len(PIN_CODE_LIST) : PIN_CODE_LIST[i] = code_str

\* first position holding code_str; only evaluated when InCodeList (else unwrap panics)
string_to_code_index(code_str) ==
    (CHOOSE i \in 1 .. Len(PIN_CODE_LIST) :
        /\ PIN_CODE_LIST[i] = code_str
        /\ \A j \in 1 .. (i - 1) : PIN_CODE_LIST[j] # code_str) - 1

(* ------------------------ RoaringBitmap helpers ------------------------ *)
BitmapMin(S) == CHOOSE x \in S : \A y \in S : x <= y

RECURSIVE IterTake(_, _)
\* bitmap.iter().take(k): the k lowest members
IterTake(S, k) ==
    IF k = 0 \/ S = {} THEN {}
    ELSE LET m == BitmapMin(S) IN {m} \cup IterTake(S \ {m}, k - 1)

BitXor(A, B) == (A \ B) \cup (B \ A)

Reverse(s) == [i \in 1 .. Len(s) |-> s[Len(s) + 1 - i]]

SeqRange(s) == {s[i] : i \in 1 .. Len(s)}

(* ------------------------------- Raid ---------------------------------- *)
LeaseMinutes == 1

Raid_new ==
    [remaining_codes |-> 0 .. (NumCodes - 1),
     tried_codes |-> {},
     code_reservations |-> <<>>]

\* the codes of a list of reservations, flattened
RECURSIVE FlatCodes(_)
FlatCodes(rs) ==
    IF rs = <<>> THEN <<>> ELSE Head(rs).codes \o FlatCodes(Tail(rs))

\* slip: the tried filter is left out, every expired code goes back
Raid_expire_reservations_NoTriedFilter(r, t) ==
    LET IsExpired(reservation) == reservation.expires_at < t
        IsLive(reservation) == ~(reservation.expires_at < t)
        expired_reservations == SelectSeq(r.code_reservations, IsExpired)
    IN [r EXCEPT !.code_reservations = SelectSeq(r.code_reservations, IsLive),
                 !.remaining_codes =
                     @ \cup {string_to_code_index(code) :
                                code \in SeqRange(FlatCodes(expired_reservations))}]

\* slip: a reservation expiring at this very instant is swept too
Raid_expire_reservations_AtInstant(r, t) ==
    LET IsExpired(reservation) == reservation.expires_at <= t
        IsLive(reservation) == ~(reservation.expires_at <= t)
        expired_reservations == SelectSeq(r.code_reservations, IsExpired)
        codes_to_retry ==
            {string_to_code_index(code) :
                code \in {c \in SeqRange(FlatCodes(expired_reservations)) :
                            string_to_code_index(c) \notin r.tried_codes}}
    IN [r EXCEPT !.code_reservations = SelectSeq(r.code_reservations, IsLive),
                 !.remaining_codes = @ \cup codes_to_retry]

\* slip: the codes go back but the expired reservations stay (filter in
\* place of drain_filter)
Raid_expire_reservations_KeepLease(r, t) ==
    LET IsExpired(reservation) == reservation.expires_at < t
        expired_reservations == SelectSeq(r.code_reservations, IsExpired)
        codes_to_retry ==
            {string_to_code_index(code) :
                code \in {c \in SeqRange(FlatCodes(expired_reservations)) :
                            string_to_code_index(c) \notin r.tried_codes}}
    IN [r EXCEPT !.remaining_codes = @ \cup codes_to_retry]

Raid_expire_reservations(r, t) ==
    LET IsExpired(reservation) == reservation.expires_at < t
        IsLive(reservation) == ~(reservation.expires_at < t)
        expired_reservations == SelectSeq(r.code_reservations, IsExpired)
        codes_to_retry ==
            {string_to_code_index(code) :
                code \in {c \in SeqRange(FlatCodes(expired_reservations)) :
                            string_to_code_index(c) \notin r.tried_codes}}
    IN [r EXCEPT !.code_reservations = SelectSeq(r.code_reservations, IsLive),
                 !.remaining_codes = @ \cup codes_to_retry]

BitmapMax(S) == CHOOSE x \in S : \A y \in S : y <= x

RECURSIVE ReserveLoop_FromTop(_, _, _)
\* slip: max() instead of min()
ReserveLoop_FromTop(remaining, codes, k) ==
    IF k = 0 THEN [remaining |-> remaining, codes |-> codes]
    ELSE IF remaining # {}
         THEN LET code == BitmapMax(remaining)
              IN ReserveLoop_FromTop(remaining \ {code},
                                     Append(codes, code_index_to_string(code)), k - 1)
         ELSE ReserveLoop_FromTop(remaining, codes, k - 1)

RECURSIVE ReserveLoop(_, _, _)
\* the for-loop of reserve_codes: k iterations left
ReserveLoop(remaining, codes, k) ==
    IF k = 0 THEN [remaining |-> remaining, codes |-> codes]
    ELSE IF remaining # {}
         THEN LET code == BitmapMin(remaining)
              IN ReserveLoop(remaining \ {code},
                             Append(codes, code_index_to_string(code)), k - 1)
         ELSE ReserveLoop(remaining, codes, k - 1)

\* slip: the chosen codes are not taken out of remaining_codes
Raid_reserve_codes_NoRemove(r, count, t) ==
    LET l == ReserveLoop(r.remaining_codes, <<>>, count)
        reservation == [codes |-> Reverse(l.codes), expires_at |-> t + LeaseMinutes]
    IN [raid |-> [r EXCEPT !.code_reservations = Append(@, reservation)],
        reservation |-> reservation]

\* slip: codes.reverse() is left out
Raid_reserve_codes_NoReverse(r, count, t) ==
    LET l == ReserveLoop(r.remaining_codes, <<>>, count)
        reservation == [codes |-> l.codes, expires_at |-> t + LeaseMinutes]
    IN [raid |-> [r EXCEPT !.remaining_codes = l.remaining,
                           !.code_reservations = Append(@, reservation)],
        reservation |-> reservation]

Raid_reserve_codes(r, count, t) ==
    LET l == ReserveLoop(r.remaining_codes, <<>>, count)
        reservation == [codes |-> Reverse(l.codes), expires_at |-> t + LeaseMinutes]
    IN [raid |-> [r EXCEPT !.remaining_codes = l.remaining,
                           !.code_reservations = Append(@, reservation)],
        reservation |-> reservation]

\* slip: the code is marked tried but stays in remaining_codes
Raid_try_code_KeepRemaining(r, code) ==
    LET code_idx == string_to_code_index(code)
    IN [r EXCEPT !.tried_codes = @ \cup {code_idx}]

\* slip: tried_codes is toggled instead of set
Raid_try_code_Toggle(r, code) ==
    LET code_idx == string_to_code_index(code)
    IN [r EXCEPT !.remaining_codes = @ \ {code_idx},
                 !.tried_codes = BitXor(@, {code_idx})]

\* precondition InCodeList(code); otherwise string_to_code_index panics first
Raid_try_code(r, code) ==
    LET code_idx == string_to_code_index(code)
    IN [r EXCEPT !.remaining_codes = @ \ {code_idx},
                 !.tried_codes = @ \cup {code_idx}]

\* slip: bitor instead of bitxor, the skipped codes stay in remaining_codes
Raid_skip_codes_BitOr(r, skip_count) ==
    LET skipped_codes == IterTake(r.remaining_codes, skip_count)
    IN [r EXCEPT !.remaining_codes = @ \cup skipped_codes,
                 !.tried_codes = @ \cup skipped_codes]

Raid_skip_codes(r, skip_count) ==
    LET skipped_codes == IterTake(r.remaining_codes, skip_count)
    IN [r EXCEPT !.remaining_codes = BitXor(@, skipped_codes),
                 !.tried_codes = @ \cup skipped_codes]

\* slip: the remaining count is the length of the remaining_codes bitmap
RaidInfo_BitmapLen(r) ==
    [tried_code_count     |-> Cardinality(r.tried_codes),
     remaining_code_count |-> Cardinality(r.remaining_codes)]

RaidInfo(r) ==
    LET tried_codes == Cardinality(r.tried_codes)
    IN [tried_code_count |-> tried_codes,
        remaining_code_count |-> NumCodes - tried_codes]

(* ------------------------------ inputs --------------------------------- *)
\* a code that is not in pin_codes.csv
UnknownCode == "12345"

CodeInputs == {"1234", "1111", "1212", UnknownCode}

\* counts passed to reserve_codes / skip_codes when called directly:
\* one, the batch of the unit tests, more than there is
Counts == {1, 5, NumCodes + 1}

Names == {"a", "b"}

Threads == {1, 2}

NoThread == 0

EmptyMap == [n \in {} |-> Raid_new]

(* ------------------------------ Init ----------------------------------- *)
Init ==
    /\ raid = Raid_new
    /\ ret = [op |-> "new"]
    /\ now = 0
    /\ raids = EmptyMap
    /\ disk = EmptyMap
    /\ saveFails = 0
    /\ poisoned = FALSE
    /\ mutex = NoThread
    /\ pc = [t \in Threads |-> "idle"]
    /\ req = [t \in Threads |-> [op |-> "none"]]
    /\ resp = [t \in Threads |-> [status |-> "none"]]
    /\ stale = [t \in Threads |-> FALSE]

RegistryVars == <<raids, disk, saveFails, poisoned, mutex, pc, req, resp, stale>>

(* ---------------- the Raid driven directly (EngineSpec) ---------------- *)
\* Utc::now() moves on
Tick ==
    /\ now < MaxTime
    /\ now' = now + 1
    /\ ret' = [op |-> "tick"]
    /\ UNCHANGED <<raid, RegistryVars>>

CallExpire ==
    /\ raid' = Raid_expire_reservations(raid, now)
    /\ ret' = [op |-> "expire_reservations"]
    /\ UNCHANGED <<now, RegistryVars>>

DoReserve(count) ==
    /\ LET r == Raid_reserve_codes(raid, count, now)
       IN /\ raid' = r.raid
          /\ ret' = [op |-> "reserve_codes", count |-> count,
                     reservation |-> r.reservation]
    /\ UNCHANGED <<now, RegistryVars>>

CallReserve(count) ==
    /\ Len(raid.code_reservations) < MaxRes
    /\ DoReserve(count)

CallTry(code) ==
    /\ IF InCodeList(code)
       THEN /\ raid' = Raid_try_code(raid, code)
            /\ ret' = [op |-> "try_code", code |-> code, panicked |-> FALSE]
       ELSE /\ raid' = raid
            /\ ret' = [op |-> "try_code", code |-> code, panicked |-> TRUE]
    /\ UNCHANGED <<now, RegistryVars>>

CallSkip(skip_count) ==
    /\ raid' = Raid_skip_codes(raid, skip_count)
    /\ ret' = [op |-> "skip_codes", skip_count |-> skip_count]
    /\ UNCHANGED <<now, RegistryVars>>

EngineNext ==
    \/ Tick
    \/ CallExpire
    \/ \E count \in Counts : CallReserve(count)
    \/ \E code \in CodeInputs : CallTry(code)
    \/ \E skip_count \in Counts : CallSkip(skip_count)

EngineSpec == Init /\ [][EngineNext]_vars

(* ------------- the registry behind the Mutex (Spec) -------------------- *)
\* Utc::now() moves on between two steps of the threads
Advance ==
    /\ now < MaxTime
    /\ now' = now + 1
    /\ UNCHANGED <<raid, ret, RegistryVars>>

\* RaidReference.skip_count: Option<u64>
None == <<>>

Some(x) == <<x>>

\* the codes and skip counts the requests of Spec carry
TryInputs == {"1234", UnknownCode}

SkipInputs == {None, Some(2)}

\* the count the reserve_codes handler passes (5 in main.rs, scaled down
\* with the code universe so that a batch is a part of it)
BatchSize == 2

\* every request on raid "a"; raid "b" is only created, fetched and deleted
Requests ==
    {[op |-> "raid_list"]}
      \cup [op : {"create_raid"}, name : {"a"}, skip_count : SkipInputs]
      \cup [op : {"create_raid"}, name : {"b"}, skip_count : {None}]
      \cup [op : {"delete_raid", "get_raid"}, name : Names]
      \cup [op : {"reserve_codes"}, name : {"a"}]
      \cup [op : {"try_code"}, name : {"a"}, code : TryInputs]

\* RaidMap::save: bincode::serialize, then fs::write of data/raids.bin; an
\* Err is taken to leave the file as it was.  The number of failing saves in
\* one run is capped by MaxSaveFails.
SaveOutcomes == IF saveFails < MaxSaveFails THEN {"ok", "unwritten"} ELSE {"ok"}

RaidMap_save(rm, file, outcome) ==
    IF outcome = "ok" THEN rm ELSE file

RaidMap_to_pub_json(rm) == [n \in DOMAIN rm |-> RaidInfo(rm[n])]

MapInsert(rm, name, r) ==
    [n \in DOMAIN rm \cup {name} |-> IF n = name THEN r ELSE rm[n]]

MapRemove(rm, name) == [n \in DOMAIN rm \ {name} |-> rm[n]]

Ok(body) == [status |-> "ok", body |-> body]

Err(msg) == [status |-> "err", error |-> msg]

Panicked == [status |-> "panic"]

\* slip: the handler does not wait for the holder of the Mutex
LockFrom_NoWait(t, R) ==
    /\ pc[t] = "idle"
    /\ \E r \in R :
          /\ r.op = "reserve_codes" /\ r.name \in DOMAIN raids
                => Len(raids[r.name].code_reservations) < MaxRes
          /\ req' = [req EXCEPT ![t] = r]
    /\ IF poisoned
       THEN /\ pc' = [pc EXCEPT ![t] = "ret"]
            /\ resp' = [resp EXCEPT ![t] = Panicked]
            /\ UNCHANGED mutex
       ELSE /\ mutex' = t
            /\ pc' = [pc EXCEPT ![t] = "body"]
            /\ UNCHANGED resp
    /\ UNCHANGED <<raid, ret, now, raids, disk, saveFails, poisoned, stale>>

\* a request of R is routed to worker thread t, whose handler starts with
\* state.lock().unwrap(): it gets past it only when no thread holds the
\* Mutex; on a poisoned Mutex lock() returns Err and unwrap panics
LockFrom(t, R) ==
    /\ pc[t] = "idle"
    /\ mutex = NoThread
    /\ \E r \in R :
          /\ r.op = "reserve_codes" /\ r.name \in DOMAIN raids
                => Len(raids[r.name].code_reservations) < MaxRes
          /\ req' = [req EXCEPT ![t] = r]
    /\ IF poisoned
       THEN /\ pc' = [pc EXCEPT ![t] = "ret"]
            /\ resp' = [resp EXCEPT ![t] = Panicked]
            /\ UNCHANGED mutex
       ELSE /\ mutex' = t
            /\ pc' = [pc EXCEPT ![t] = "body"]
            /\ UNCHANGED resp
    /\ UNCHANGED <<raid, ret, now, raids, disk, saveFails, poisoned, stale>>

Lock(t) == LockFrom(t, Requests)

\* the handler returns response: the MutexGuard is dropped
Return(t, response) ==
    /\ pc' = [pc EXCEPT ![t] = "ret"]
    /\ resp' = [resp EXCEPT ![t] = response]
    /\ mutex' = NoThread

\* responses still on their way to the caller that named a raid in Gone are
\* marked: that raid was deleted, or had a reservation swept, after they ran
MarkStale(t, Gone) ==
    stale' = [u \in Threads |->
                 \/ stale[u]
                 \/ /\ u # t
                    /\ pc[u] = "ret"
                    /\ req[u].op \in {"create_raid", "reserve_codes"}
                    /\ req[u].name \in Gone]

\* raid_state.save()? followed by Ok(body): an Err of save is returned in
\* place of the body, with the registry left as the handler changed it
SaveThenReturn(t, body) ==
    \E outcome \in SaveOutcomes :
       /\ disk' = RaidMap_save(raids', disk, outcome)
       /\ saveFails' = IF outcome = "ok" THEN saveFails ELSE saveFails + 1
       /\ IF outcome = "ok"
          THEN Return(t, Ok(body))
          ELSE Return(t, Err("save failed"))

\* slip: only one raid of the registry is swept
raid_list_OneRaid(t) ==
    /\ pc[t] = "body" /\ req[t].op = "raid_list"
    /\ LET first == IF DOMAIN raids = {} THEN {} ELSE {CHOOSE n \in DOMAIN raids : TRUE}
       IN raids' = [n \in DOMAIN raids |->
                       IF n \in first
                       THEN Raid_expire_reservations(raids[n], now)
                       ELSE raids[n]]
    /\ Return(t, Ok(RaidMap_to_pub_json(raids')))
    /\ MarkStale(t, {n \in DOMAIN raids :
                       raids'[n].code_reservations # raids[n].code_reservations})
    /\ UNCHANGED <<raid, ret, now, disk, saveFails, poisoned, req>>

raid_list(t) ==
    /\ pc[t] = "body" /\ req[t].op = "raid_list"
    /\ raids' = [n \in DOMAIN raids |-> Raid_expire_reservations(raids[n], now)]
    /\ Return(t, Ok(RaidMap_to_pub_json(raids')))
    /\ MarkStale(t, {n \in DOMAIN raids :
                       raids'[n].code_reservations # raids[n].code_reservations})
    /\ UNCHANGED <<raid, ret, now, disk, saveFails, poisoned, req>>

\* slip: no contains_key check, the insert replaces an existing raid
create_raid_NoCheck(t) ==
    /\ pc[t] = "body" /\ req[t].op = "create_raid"
    /\ LET form == req[t]
           new_raid == IF form.skip_count # None
                       THEN Raid_skip_codes(Raid_new, form.skip_count[1])
                       ELSE Raid_new
       IN /\ raids' = MapInsert(raids, form.name, new_raid)
          /\ SaveThenReturn(t, RaidMap_to_pub_json(raids'))
    /\ UNCHANGED <<raid, ret, now, poisoned, req, stale>>

\* slip: a failed save takes the new raid out of the registry again
create_raid_Rollback(t) ==
    /\ pc[t] = "body" /\ req[t].op = "create_raid"
    /\ LET form == req[t] IN
       IF form.name \in DOMAIN raids
       THEN /\ Return(t, Err("Raid already exists"))
            /\ UNCHANGED <<raids, disk, saveFails>>
       ELSE LET new_raid == IF form.skip_count # None
                            THEN Raid_skip_codes(Raid_new, form.skip_count[1])
                            ELSE Raid_new
                inserted == MapInsert(raids, form.name, new_raid)
            IN \E outcome \in SaveOutcomes :
                  /\ raids' = IF outcome = "ok" THEN inserted ELSE raids
                  /\ disk' = RaidMap_save(inserted, disk, outcome)
                  /\ saveFails' = IF outcome = "ok" THEN saveFails ELSE saveFails + 1
                  /\ IF outcome = "ok"
                     THEN Return(t, Ok(RaidMap_to_pub_json(inserted)))
                     ELSE Return(t, Err("save failed"))
    /\ UNCHANGED <<raid, ret, now, poisoned, req, stale>>

create_raid(t) ==
    /\ pc[t] = "body" /\ req[t].op = "create_raid"
    /\ LET form == req[t] IN
       IF form.name \in DOMAIN raids
       THEN /\ Return(t, Err("Raid already exists"))
            /\ UNCHANGED <<raids, disk, saveFails>>
       ELSE LET new_raid == IF form.skip_count # None
                            THEN Raid_skip_codes(Raid_new, form.skip_count[1])
                            ELSE Raid_new
            IN /\ raids' = MapInsert(raids, form.name, new_raid)
               /\ SaveThenReturn(t, RaidMap_to_pub_json(raids'))
    /\ UNCHANGED <<raid, ret, now, poisoned, req, stale>>

delete_raid(t) ==
    /\ pc[t] = "body" /\ req[t].op = "delete_raid"
    /\ raids' = MapRemove(raids, req[t].name)
    /\ SaveThenReturn(t, <<>>)
    /\ MarkStale(t, {req[t].name} \cap DOMAIN raids)
    /\ UNCHANGED <<raid, ret, now, poisoned, req>>

get_raid(t) ==
    /\ pc[t] = "body" /\ req[t].op = "get_raid"
    /\ IF req[t].name \notin DOMAIN raids
       THEN Return(t, Err("Raid not found"))
       ELSE Return(t, Ok(raids[req[t].name]))
    /\ UNCHANGED <<raid, ret, now, raids, disk, saveFails, poisoned, req, stale>>

reserve_codes(t) ==
    /\ pc[t] = "body" /\ req[t].op = "reserve_codes"
    /\ LET name == req[t].name IN
       IF name \notin DOMAIN raids
       THEN /\ Return(t, Err("Raid not found"))
            /\ UNCHANGED <<raids, disk, saveFails>>
       ELSE LET r == Raid_reserve_codes(raids[name], BatchSize, now)
            IN /\ raids' = [raids EXCEPT ![name] = r.raid]
               /\ SaveThenReturn(t, r.reservation)
    /\ UNCHANGED <<raid, ret, now, poisoned, req, stale>>

try_code(t) ==
    /\ pc[t] = "body" /\ req[t].op = "try_code"
    /\ LET name == req[t].name
           form == req[t]
       IN IF name \notin DOMAIN raids
          THEN /\ Return(t, Err("Raid not found"))
               /\ UNCHANGED <<raids, disk, saveFails, poisoned>>
          ELSE IF ~ InCodeList(form.code)
          THEN \* unwrap of None in string_to_code_index: the thread panics
               \* holding the guard, which poisons the Mutex
               /\ Return(t, Panicked)
               /\ poisoned' = TRUE
               /\ UNCHANGED <<raids, disk, saveFails>>
          ELSE /\ raids' = [raids EXCEPT ![name] = Raid_try_code(@, form.code)]
               /\ SaveThenReturn(t, <<>>)
               /\ UNCHANGED poisoned
    /\ UNCHANGED <<raid, ret, now, req, stale>>

\* the response reaches the caller; the worker thread is free again
Respond(t) ==
    /\ pc[t] = "ret"
    /\ pc' = [pc EXCEPT ![t] = "idle"]
    /\ req' = [req EXCEPT ![t] = [op |-> "none"]]
    /\ resp' = [resp EXCEPT ![t] = [status |-> "none"]]
    /\ stale' = [stale EXCEPT ![t] = FALSE]
    /\ UNCHANGED <<raid, ret, now, raids, disk, saveFails, poisoned, mutex>>

\* one worker thread serves the requests one after the other
Next ==
    \/ Advance
    \/ Lock(1)
    \/ raid_list(1)
    \/ create_raid(1)
    \/ delete_raid(1)
    \/ get_raid(1)
    \/ reserve_codes(1)
    \/ try_code(1)
    \/ Respond(1)

Spec == Init /\ [][Next]_vars

(* ------------- concurrent worker threads (ConcSpec) -------------------- *)
\* the requests of ConcSpec all name the same raid
ConcRequests ==
    {[op |-> "raid_list"],
     [op |-> "create_raid", name |-> "a", skip_count |-> None],
     [op |-> "delete_raid", name |-> "a"],
     [op |-> "get_raid", name |-> "a"],
     [op |-> "reserve_codes", name |-> "a"],
     [op |-> "try_code", name |-> "a", code |-> "1234"]}

\* worker 1 serves any of them, worker 2 the create and reserve requests
ConcLock(t) ==
    LockFrom(t, IF t = 1
                THEN ConcRequests
                ELSE {r \in ConcRequests : r.op \in {"create_raid", "reserve_codes"}})

ConcNext ==
    \/ Advance
    \/ \E t \in Threads :
          \/ ConcLock(t)
          \/ raid_list(t)
          \/ create_raid(t)
          \/ delete_raid(t)
          \/ get_raid(t)
          \/ reserve_codes(t)
          \/ try_code(t)
          \/ Respond(t)

ConcSpec == Init /\ [][ConcNext]_vars

(* --------- allocation until exhaustion, one batch size (ExhaustSpec) ---- *)
\* reserve_codes(count) again and again with the count of the first call
ExhaustReserve(count) ==
    /\ Len(raid.code_reservations) <= NumCodes
    /\ raid.code_reservations # <<>> => count = ret.count
    /\ DoReserve(count)

ExhaustNext ==
    \/ Advance
    \/ \E count \in 1 .. (NumCodes + 1) : ExhaustReserve(count)

ExhaustSpec == Init /\ [][ExhaustNext]_vars

(* --------- two raids with reservations, swept by raid_list (SweepSpec) -- *)
\* raids "a" and "b" are created, reserved from and listed; never deleted
SweepRequests ==
    {[op |-> "raid_list"]}
      \cup [op : {"create_raid"}, name : Names, skip_count : {None}]
      \cup [op : {"reserve_codes"}, name : Names]
      \cup {[op |-> "try_code", name |-> "a", code |-> "1234"]}

SweepNext ==
    \/ Advance
    \/ LockFrom(1, SweepRequests)
    \/ raid_list(1)
    \/ create_raid(1)
    \/ reserve_codes(1)
    \/ try_code(1)
    \/ Respond(1)

SweepSpec == Init /\ [][SweepNext]_vars

(* --------- workers that reserve and try until done (LiveSpec) ----------- *)
\* what the requests of a worker do to one raid: the reserve_codes handler
\* calls Raid::reserve_codes(5) and nothing else on the raid.  On a raid
\* with no remaining code the request comes while no empty reservation is
\* stored: one more would add another empty reservation and nothing else.
LiveReserve ==
    /\ \/ raid.remaining_codes # {}
       \/ \A k \in 1 .. Len(raid.code_reservations) :
             raid.code_reservations[k].codes # <<>>
    /\ DoReserve(BatchSize)

\* the reservation does not expire within the time the clock covers
LateLease(reservation) == reservation.expires_at >= MaxTime

\* a worker reports a code of reservation k that is not tried yet: the
\* try_code handler calls Raid::try_code and nothing else on the raid
LiveTry(k, code) ==
    /\ k \in 1 .. Len(raid.code_reservations)
    /\ code \in SeqRange(raid.code_reservations[k].codes)
    /\ string_to_code_index(code) \notin raid.tried_codes
    /\ CallTry(code)

\* the same by a worker whose reservation is still running at MaxTime
LiveTryLate ==
    \E k \in 1 .. Len(raid.code_reservations) :
       \E code \in SeqRange(PIN_CODE_LIST) :
          LateLease(raid.code_reservations[k]) /\ LiveTry(k, code)

LiveNext ==
    \/ Tick
    \/ LiveReserve
    \/ \E k \in 1 .. (NumCodes + 1) : \E code \in SeqRange(PIN_CODE_LIST) : LiveTry(k, code)
    \/ CallExpire

\* time moves on, reserve_codes requests keep coming, and a worker whose
\* reservation is late tries all its codes: only the workers of earlier
\* reservations may drop out.  Nothing obliges a raid_list request to come.
LiveSpec ==
    /\ Init
    /\ [][LiveNext]_vars
    /\ WF_vars(Tick)
    /\ WF_vars(LiveReserve)
    /\ WF_vars(LiveTryLate)

(* --------- the Raid under a clock that may be set (SkewSpec) ------------ *)
\* Utc::now() is the wall clock: between two calls it may have been set to
\* any time, an earlier one too
SetClock(t) ==
    /\ t # now
    /\ now' = t
    /\ ret' = [op |-> "set_clock"]
    /\ UNCHANGED <<raid, RegistryVars>>

SkewNext ==
    \/ \E t \in 0 .. MaxTime : SetClock(t)
    \/ CallExpire
    \/ CallReserve(BatchSize)
    \/ \E code \in {"1234", "1212"} : CallTry(code)
    \/ CallSkip(1)

SkewSpec == Init /\ [][SkewNext]_vars

(* ===================== properties of the Raid ========================== *)
MinOf(a, b) == IF a <= b THEN a ELSE b

\* the k lowest-numbered members of S
LowestOf(S, k) == {x \in S : Cardinality({y \in S : y < x}) < k}

\* the code indices a reservation holds
LeaseIdx(reservation) == {string_to_code_index(c) : c \in SeqRange(reservation.codes)}

\* the code indices held by the reservations of r
LeasedIdx(r) == UNION {LeaseIdx(r.code_reservations[j]) : j \in 1 .. Len(r.code_reservations)}

\* how many (reservation, position) pairs of r hold index i
Holders(r, i) ==
    Cardinality({p \in (1 .. Len(r.code_reservations)) \X (1 .. NumCodes) :
                    /\ p[2] <= Len(r.code_reservations[p[1]].codes)
                    /\ r.code_reservations[p[1]].codes[p[2]] = code_index_to_string(i)})

InExactlyOne(r, i) ==
    \/ i \in r.remaining_codes /\ i \notin r.tried_codes /\ Holders(r, i) = 0
    \/ i \notin r.remaining_codes /\ i \in r.tried_codes /\ Holders(r, i) = 0
    \/ i \notin r.remaining_codes /\ i \notin r.tried_codes /\ Holders(r, i) = 1

\* C1 as stated: every index is in exactly one of remaining, tried, or the
\* codes of exactly one reservation; the three are pairwise disjoint and
\* |remaining| + |tried| + codes in reservations = N.
C1_PartitionAsStated ==
    /\ \A i \in CodeIdx : InExactlyOne(raid, i)
    /\ Cardinality(raid.remaining_codes) + Cardinality(raid.tried_codes)
         + Len(FlatCodes(raid.code_reservations)) = NumCodes

\* C1 amended: a reservation keeps a code that try_code has moved to tried
\* until the reservation is swept.  Every index is in remaining, in tried or
\* held by a reservation; remaining is disjoint from tried and from the
\* reserved codes; an index is held at most once; and |remaining| + |tried| +
\* (reserved codes not in tried) = N.
C1_Partition ==
    /\ \A i \in CodeIdx :
          \/ i \in raid.remaining_codes
          \/ i \in raid.tried_codes
          \/ Holders(raid, i) = 1
    /\ raid.remaining_codes \cap raid.tried_codes = {}
    /\ raid.remaining_codes \cap LeasedIdx(raid) = {}
    /\ \A i \in CodeIdx : Holders(raid, i) <= 1
    /\ Cardinality(raid.remaining_codes) + Cardinality(raid.tried_codes)
         + Cardinality(LeasedIdx(raid) \ raid.tried_codes) = NumCodes

\* a tried code still sits in a reservation next to an untried one, with
\* other codes remaining
C1_Witness ==
    /\ LeasedIdx(raid) \cap raid.tried_codes # {}
    /\ LeasedIdx(raid) \ raid.tried_codes # {}
    /\ raid.remaining_codes # {}
    /\ ret.op = "expire_reservations"

\* C2: once an index is in tried it stays in tried, is never in remaining and
\* is never part of a newly issued reservation.
C2_TriedTerminal ==
    /\ [](raid.tried_codes \cap raid.remaining_codes = {})
    /\ [][\A i \in raid.tried_codes :
             /\ i \in raid'.tried_codes
             /\ i \notin raid'.remaining_codes
             /\ ret'.op = "reserve_codes"
                   => code_index_to_string(i) \notin SeqRange(ret'.reservation.codes)]_vars

\* a reservation was just issued that passes over a tried index
C2_Witness ==
    /\ ret.op = "reserve_codes"
    /\ \E i \in raid.tried_codes : \E j \in LeaseIdx(ret.reservation) : i < j
    /\ \E i \in raid.tried_codes : \E j \in LeaseIdx(ret.reservation) : j < i

\* C3: expire_reservations at time now removes exactly the reservations with
\* expires_at < now, keeps the others unchanged and in order, returns to
\* remaining exactly the removed codes that are not tried, and leaves tried.
C3_Reclaim ==
    [][ret'.op = "expire_reservations" =>
          LET Kept(reservation) == reservation.expires_at >= now
              Gone(reservation) == reservation.expires_at < now
              gone == SelectSeq(raid.code_reservations, Gone)
              back == UNION {LeaseIdx(gone[j]) : j \in 1 .. Len(gone)}
          IN /\ raid'.code_reservations = SelectSeq(raid.code_reservations, Kept)
             /\ raid'.remaining_codes = raid.remaining_codes \cup (back \ raid.tried_codes)
             /\ raid'.tried_codes = raid.tried_codes
             /\ (/\ Len(raid.code_reservations) = 1
                 /\ Len(gone) = 1
                 /\ Len(gone[1].codes) = 5
                 /\ Cardinality(raid.tried_codes) = 1
                 /\ raid.tried_codes \subseteq back)
                   => /\ Cardinality(raid'.remaining_codes)
                            = Cardinality(raid.remaining_codes) + 4
                      /\ Cardinality(raid'.tried_codes) = 1]_vars

\* a sweep at the expiry instant itself: the reservation expiring now is kept,
\* an older one went and gave back index 1 but not the tried index 0
C3_Witness ==
    /\ ret.op = "expire_reservations"
    /\ Len(raid.code_reservations) = 1
    /\ raid.code_reservations[1].expires_at = now
    /\ LeaseIdx(raid.code_reservations[1]) = {2}
    /\ raid.tried_codes = {0}
    /\ 1 \in raid.remaining_codes

\* C5: reserve_codes(count) takes exactly the min(count, |remaining|) lowest
\* indices of remaining, leaves tried, and appends one reservation holding
\* exactly those codes, expiring one minute from now; it is what it returns.
C5_Allocate ==
    [][ret'.op = "reserve_codes" =>
          LET k == MinOf(ret'.count, Cardinality(raid.remaining_codes))
              taken == LowestOf(raid.remaining_codes, k)
              lease == ret'.reservation
          IN /\ raid'.remaining_codes = raid.remaining_codes \ taken
             /\ raid'.tried_codes = raid.tried_codes
             /\ raid'.code_reservations = Append(raid.code_reservations, lease)
             /\ Len(lease.codes) = k
             /\ LeaseIdx(lease) = taken
             /\ lease.expires_at = now + 1]_vars

\* a short, non-empty batch after tried and reserved codes: asked for more
\* than remained
C5_Witness ==
    /\ ret.op = "reserve_codes"
    /\ Len(ret.reservation.codes) > 0
    /\ Len(ret.reservation.codes) < ret.count
    /\ Len(raid.code_reservations) = 2
    /\ raid.tried_codes # {}

\* C6: reserve_codes(5) on a fresh Raid returns the codes of indices 0..4 in
\* ascending index order, "1234" first, leaving N - 5 remaining, none tried.
C6_FreshBatchOrder ==
    [][(raid = Raid_new /\ ret'.op = "reserve_codes" /\ ret'.count = 5) =>
          /\ ret'.reservation.codes = <<"1234", "1111", "0000", "1212", "7777">>
          /\ Cardinality(raid'.remaining_codes) = NumCodes - 5
          /\ raid'.tried_codes = {}]_vars

\* C7: from a fresh Raid, reserve_codes(B) called again and again with nothing
\* in between: exactly ceil(N/B) calls return a non-empty batch, the batches
\* are pairwise disjoint and together hold all N indices, the last non-empty
\* batch has N mod B codes (B when that is 0), and every later batch is empty.
C7_Exhaustion ==
    raid.code_reservations # <<>> =>
       LET L == raid.code_reservations
           m == Len(L)
           B == ret.count
           full == NumCodes \div B
           rest == NumCodes % B
           batches == IF rest = 0 THEN full ELSE full + 1
           lastSize == IF rest = 0 THEN B ELSE rest
       IN /\ Cardinality({j \in 1 .. m : L[j].codes # <<>>}) = MinOf(m, batches)
          /\ \A j \in 1 .. m : (L[j].codes # <<>>) <=> (j <= batches)
          /\ \A j \in 1 .. m : j < batches => Len(L[j].codes) = B
          /\ m >= batches => Len(L[batches].codes) = lastSize
          /\ \A i \in CodeIdx : Holders(raid, i) <= 1
          /\ m >= batches => LeasedIdx(raid) = CodeIdx
          /\ m >= batches => raid.remaining_codes = {}
          /\ ret.reservation = L[m]

\* past exhaustion with a short last batch: an empty batch has been returned
C7_Witness ==
    /\ ret.op = "reserve_codes"
    /\ ret.count \in 2 .. (NumCodes - 1)
    /\ NumCodes % ret.count # 0
    /\ ret.reservation.codes = <<>>
    /\ Len(raid.code_reservations) = (NumCodes \div ret.count) + 2
    /\ Len(raid.code_reservations[(NumCodes \div ret.count) + 1].codes) = NumCodes % ret.count

\* C8: try_code of a listed code never fails; afterwards the index is in tried
\* and not in remaining and the reservations are as before; a second try_code
\* of the same code changes nothing.
C8_Complete ==
    [][(ret'.op = "try_code" /\ InCodeList(ret'.code)) =>
          /\ ~ ret'.panicked
          /\ string_to_code_index(ret'.code) \in raid'.tried_codes
          /\ string_to_code_index(ret'.code) \notin raid'.remaining_codes
          /\ raid'.code_reservations = raid.code_reservations
          /\ (ret.op = "try_code" /\ ret.code = ret'.code) => raid' = raid
          /\ Raid_try_code(raid', ret'.code) = raid']_vars

\* try_code has just been accepted for a code that a reservation holds, with
\* another code already tried and others remaining
C8_Witness ==
    /\ ret.op = "try_code"
    /\ ~ ret.panicked
    /\ string_to_code_index(ret.code) \in LeasedIdx(raid)
    /\ Cardinality(raid.tried_codes) >= 2
    /\ raid.remaining_codes # {}

\* C9: skip_codes(count) moves exactly the min(count, |remaining|) lowest
\* indices of remaining into tried and touches no reservation; on a fresh Raid
\* |tried| = min(k, N), |remaining| = N - min(k, N) and min(remaining) = k for
\* k < N; no later reserve_codes returns a skipped (tried) index.
C9_Skip ==
    [][/\ ret'.op = "skip_codes" =>
            LET k == MinOf(ret'.skip_count, Cardinality(raid.remaining_codes))
                moved == LowestOf(raid.remaining_codes, k)
            IN /\ raid'.remaining_codes = raid.remaining_codes \ moved
               /\ raid'.tried_codes = raid.tried_codes \cup moved
               /\ raid'.code_reservations = raid.code_reservations
               /\ raid = Raid_new =>
                     /\ Cardinality(raid'.tried_codes) = MinOf(ret'.skip_count, NumCodes)
                     /\ Cardinality(raid'.remaining_codes)
                           = NumCodes - MinOf(ret'.skip_count, NumCodes)
                     /\ ret'.skip_count < NumCodes
                           => /\ raid'.remaining_codes # {}
                              /\ \A i \in raid'.remaining_codes : ret'.skip_count <= i
                              /\ ret'.skip_count \in raid'.remaining_codes
       /\ ret'.op = "reserve_codes" =>
            LeaseIdx(ret'.reservation) \cap raid.tried_codes = {}]_vars

\* skip_codes was asked for more than remained, on a Raid that has a
\* reservation out
C9_Witness ==
    /\ ret.op = "skip_codes"
    /\ ret.skip_count > Cardinality(raid.tried_codes)
    /\ raid.remaining_codes = {}
    /\ raid.tried_codes # {}
    /\ LeasedIdx(raid) \ raid.tried_codes # {}

(* =================== properties of the registry ======================== *)
\* the requests of t1 and t2 overlap in time: both responses are on their way
InFlightPair(t1, t2, op) ==
    /\ t1 # t2
    /\ pc[t1] = "ret" /\ pc[t2] = "ret"
    /\ req[t1].op = op /\ req[t2].op = op
    /\ req[t1].name = req[t2].name

IsOk(t) == resp[t].status = "ok"

\* no two threads are past lock() at once, and the Mutex knows its holder
MutualExclusion ==
    /\ \A t1, t2 \in Threads : (pc[t1] = "body" /\ pc[t2] = "body") => t1 = t2
    /\ \A t \in Threads : (mutex = t) <=> (pc[t] = "body")

\* C4 as stated: handlers exclude each other; two concurrent reserve_codes
\* requests on one raid never return reservations that share a code, and of
\* two concurrent create_raid requests with one name exactly one succeeds.
C4_SerialAsStated ==
    /\ MutualExclusion
    /\ \A t1, t2 \in Threads :
          /\ InFlightPair(t1, t2, "reserve_codes") /\ IsOk(t1) /\ IsOk(t2)
                => SeqRange(resp[t1].body.codes) \cap SeqRange(resp[t2].body.codes) = {}
          /\ InFlightPair(t1, t2, "create_raid")
                => (IsOk(t1) /\ ~ IsOk(t2)) \/ (IsOk(t2) /\ ~ IsOk(t1))

\* C4 amended: handlers exclude each other and nothing changes the registry,
\* the file or the poison flag under a thread that holds the Mutex.  Two
\* concurrent reserve_codes requests on one raid never return reservations
\* that share a code, and two concurrent create_raid requests with one name
\* never both succeed (when one succeeds the other fails with "Raid already
\* exists" or on the poisoned Mutex; none succeeds when the name is taken or
\* the save of the first fails), unless the raid was deleted or swept by
\* raid_list between the two.
C4_Serial ==
    /\ []MutualExclusion
    /\ [][\A t \in Threads :
             (pc[t] = "body" /\ \E u \in Threads \ {t} : pc'[u] # pc[u])
                => /\ raids' = raids
                   /\ disk' = disk
                   /\ poisoned' = poisoned
                   /\ pc'[t] = "body"]_vars
    /\ [](\A t1, t2 \in Threads :
             /\ (/\ InFlightPair(t1, t2, "reserve_codes")
                 /\ IsOk(t1) /\ IsOk(t2)
                 /\ ~ stale[t1] /\ ~ stale[t2])
                   => SeqRange(resp[t1].body.codes) \cap SeqRange(resp[t2].body.codes) = {}
             /\ (InFlightPair(t1, t2, "create_raid") /\ ~ stale[t1] /\ ~ stale[t2])
                   => /\ ~ (IsOk(t1) /\ IsOk(t2))
                      /\ IsOk(t1) => resp[t2] \in {Err("Raid already exists"), Panicked})

\* two reserve_codes requests on one raid are in flight together, each with a
\* non-empty reservation, and nothing swept or deleted the raid in between
C4_Witness ==
    \E t1, t2 \in Threads :
       /\ InFlightPair(t1, t2, "reserve_codes")
       /\ IsOk(t1) /\ IsOk(t2)
       /\ ~ stale[t1] /\ ~ stale[t2]
       /\ resp[t1].body.codes # <<>>
       /\ resp[t2].body.codes # <<>>

\* C10: get_raid, reserve_codes and try_code on an absent name fail with "Raid
\* not found", create_raid on a present name fails with "Raid already
\* exists", and a handler that fails so leaves the registry, every raid in it
\* and the saved file as they were.
C10_FailureLeavesState ==
    [][\A t \in Threads :
          (pc[t] = "body" /\ pc'[t] = "ret") =>
             LET absent == /\ req[t].op \in {"get_raid", "reserve_codes", "try_code"}
                           /\ req[t].name \notin DOMAIN raids
                 duplicate == /\ req[t].op = "create_raid"
                              /\ req[t].name \in DOMAIN raids
             IN /\ absent => resp'[t] = Err("Raid not found")
                /\ duplicate => resp'[t] = Err("Raid already exists")
                /\ (/\ resp'[t].status = "err"
                    /\ resp'[t].error \in {"Raid not found", "Raid already exists"})
                      => /\ absent \/ duplicate
                         /\ raids' = raids
                         /\ disk' = disk
                         /\ poisoned' = poisoned]_vars

\* a create_raid with a skip count has just failed on a name whose raid has a
\* tried code and a reservation out: it was neither reset nor skipped
C10_Witness ==
    /\ pc[1] = "ret"
    /\ req[1].op = "create_raid"
    /\ req[1].skip_count # None
    /\ resp[1] = Err("Raid already exists")
    /\ raids[req[1].name].tried_codes = {0}
    /\ raids[req[1].name].code_reservations # <<>>
    /\ DOMAIN raids = {req[1].name}

\* C11: a try_code with a code that is not in the list, on a raid that
\* exists, does not panic: the handler answers with an error, leaves the
\* registry and the file as they were, and no request before or after it is
\* lost to a panic.
C11_UnknownCodeFails ==
    /\ [][\A t \in Threads :
             (/\ pc[t] = "body" /\ pc'[t] = "ret"
              /\ req[t].op = "try_code"
              /\ req[t].name \in DOMAIN raids
              /\ ~ InCodeList(req[t].code))
                => /\ resp'[t].status = "err"
                   /\ raids' = raids
                   /\ disk' = disk
                   /\ ~ poisoned']_vars
    /\ [](\A t \in Threads : resp[t] # Panicked)

\* C12: whenever a handler changed the registry and answers with success
\* (create_raid, delete_raid, reserve_codes, try_code, or a raid_list whose
\* sweep changed a raid), the saved file equals the registry at the moment
\* the handler returns.
C12_DurableOnSuccess ==
    [][\A t \in Threads :
          (/\ pc[t] = "body" /\ pc'[t] = "ret"
           /\ resp'[t].status = "ok"
           /\ raids' # raids)
             => disk' = raids']_vars

\* C13: reserve_codes, try_code and raid_list each run expire_reservations
\* on the raid they touch before their own work: when the handler returns,
\* the raid holds no reservation that expired before the request, and a
\* reserve_codes hands out the lowest codes of what remains after that
\* sweep, the untried codes of expired reservations among them.
C13_ExpireOnTouch ==
    [][\A t \in Threads :
          (/\ pc[t] = "body" /\ pc'[t] = "ret"
           /\ req[t].op \in {"reserve_codes", "try_code", "raid_list"}
           /\ req[t].op = "try_code" => InCodeList(req[t].code))
             => LET touched == IF req[t].op = "raid_list"
                               THEN DOMAIN raids
                               ELSE {req[t].name} \cap DOMAIN raids
                IN \A n \in touched :
                      LET swept == Raid_expire_reservations(raids[n], now)
                      IN /\ \A k \in 1 .. Len(raids'[n].code_reservations) :
                               raids'[n].code_reservations[k].expires_at >= now
                         /\ (req[t].op = "reserve_codes" /\ resp'[t].status = "ok")
                               => LeaseIdx(resp'[t].body)
                                     = LowestOf(swept.remaining_codes, BatchSize)]_vars

\* C14: raid_list sweeps every raid of the registry before it builds its
\* answer: when it returns, no raid holds a reservation with expires_at
\* before the time of the sweep, every untried code of such a reservation is
\* back in remaining_codes, and the answer has one entry for each name of
\* the registry, the RaidInfo of that raid after the sweep.
C14_ListSweepsAll ==
    [][\A t \in Threads :
          (pc[t] = "body" /\ pc'[t] = "ret" /\ req[t].op = "raid_list")
             => /\ DOMAIN raids' = DOMAIN raids
                /\ \A n \in DOMAIN raids :
                      /\ \A k \in 1 .. Len(raids'[n].code_reservations) :
                            raids'[n].code_reservations[k].expires_at >= now
                      /\ \A k \in 1 .. Len(raids[n].code_reservations) :
                            raids[n].code_reservations[k].expires_at < now
                               => LeaseIdx(raids[n].code_reservations[k])
                                     \ raids[n].tried_codes
                                        \subseteq raids'[n].remaining_codes
                /\ resp'[t].status = "ok"
                /\ DOMAIN resp'[t].body = DOMAIN raids
                /\ \A n \in DOMAIN raids :
                      resp'[t].body[n] = RaidInfo(raids'[n])]_vars

\* raid_list has just answered for two raids that each had an expired
\* reservation with untried codes (the file, which raid_list does not write,
\* still shows them) and now have none
C14_Witness ==
    /\ pc[1] = "ret" /\ req[1].op = "raid_list"
    /\ DOMAIN resp[1].body = Names
    /\ DOMAIN disk = Names
    /\ \A n \in Names :
          /\ raids[n].code_reservations = <<>>
          /\ \E k \in 1 .. Len(disk[n].code_reservations) :
                /\ disk[n].code_reservations[k].expires_at < now
                /\ LeaseIdx(disk[n].code_reservations[k]) \ disk[n].tried_codes # {}
                /\ LeaseIdx(disk[n].code_reservations[k]) \subseteq raids[n].remaining_codes

\* C15: in every reachable state the RaidInfo of the raid reports
\* tried_code_count = |tried_codes| and remaining_code_count = N minus that,
\* so the two add up to N (a new raid: 0 and N), and remaining_code_count is
\* |remaining_codes| plus the number of untried codes held by reservations.
C15_SummaryCounts ==
    LET info == RaidInfo(raid) IN
    /\ info.tried_code_count = Cardinality(raid.tried_codes)
    /\ info.remaining_code_count = NumCodes - info.tried_code_count
    /\ info.tried_code_count + info.remaining_code_count = NumCodes
    /\ info.remaining_code_count \in 0 .. NumCodes
    /\ info.remaining_code_count
          = Cardinality(raid.remaining_codes)
              + Cardinality(LeasedIdx(raid) \ raid.tried_codes)
    /\ RaidInfo(Raid_new) = [tried_code_count |-> 0, remaining_code_count |-> NumCodes]

\* a reservation holds a tried and an untried code while codes remain: the
\* count of remaining codes is more than |remaining_codes|
C15_Witness ==
    /\ raid.remaining_codes # {}
    /\ LeasedIdx(raid) \cap raid.tried_codes # {}
    /\ LeasedIdx(raid) \ raid.tried_codes # {}
    /\ RaidInfo(raid).remaining_code_count > Cardinality(raid.remaining_codes)

\* C16: every reservation in code_reservations holds at least one code, also
\* after reserve_codes on a raid whose remaining_codes is empty.
C16_LeasesNonEmpty ==
    \A k \in 1 .. Len(raid.code_reservations) :
       raid.code_reservations[k].codes # <<>>

\* the codes of a reservation run strictly downwards by index
Descending(reservation) ==
    \A j, k \in 1 .. Len(reservation.codes) :
       j < k => string_to_code_index(reservation.codes[j])
                   > string_to_code_index(reservation.codes[k])

C18_SaveFailureKeepsMutation ==
    [][\A t \in Threads :
          (pc[t] = "body" /\ pc'[t] = "ret") =>
             LET op == req[t].op
                 failed == resp'[t] = Err("save failed")
             IN /\ saveFails' # saveFails <=> failed
                /\ failed =>
                      /\ op \in {"create_raid", "delete_raid", "reserve_codes", "try_code"}
                      /\ disk' = disk
                      /\ op = "create_raid" =>
                            /\ req[t].name \notin DOMAIN raids
                            /\ req[t].name \in DOMAIN raids'
                      /\ op = "delete_raid" => req[t].name \notin DOMAIN raids'
                      /\ op = "reserve_codes" =>
                            LET old == raids[req[t].name]
                                new == raids'[req[t].name]
                                kept == new.code_reservations[Len(new.code_reservations)]
                            IN /\ Len(new.code_reservations) = Len(old.code_reservations) + 1
                               /\ LeaseIdx(kept) = LowestOf(old.remaining_codes, BatchSize)
                               /\ new.remaining_codes = old.remaining_codes \ LeaseIdx(kept)
                      /\ op = "try_code" =>
                            LET code_idx == string_to_code_index(req[t].code)
                                new == raids'[req[t].name]
                            IN code_idx \in new.tried_codes \ new.remaining_codes
                /\ (/\ op = "create_raid"
                    /\ req[t].name \in DOMAIN raids
                    /\ req[t].name \notin DOMAIN disk)
                      => /\ resp'[t] = Err("Raid already exists")
                         /\ raids' = raids]_vars

\* a create_raid has just failed with "Raid already exists" on a raid that
\* is in the registry and not in the file: the save of its creation failed
C18_Witness ==
    /\ pc[1] = "ret"
    /\ req[1].op = "create_raid"
    /\ resp[1] = Err("Raid already exists")
    /\ req[1].name \in DOMAIN raids
    /\ req[1].name \notin DOMAIN disk
    /\ saveFails > 0

\* index i is an untried code of a reservation that has expired
AbandonedIdx(i) ==
    /\ i \notin raid.tried_codes
    /\ \E k \in 1 .. Len(raid.code_reservations) :
          /\ raid.code_reservations[k].expires_at < now
          /\ i \in LeaseIdx(raid.code_reservations[k])

\* C19: with time moving on, reserve_codes requests coming for ever and only
\* finitely many reservations dropped by their workers, every untried code
\* of an expired reservation gets back into remaining_codes (or is tried),
\* all N codes end up tried, and from then on reserve_codes returns nothing.
C19_SearchCompletes ==
    /\ \A i \in CodeIdx :
          AbandonedIdx(i) ~> (i \in raid.remaining_codes \cup raid.tried_codes)
    /\ <>[](raid.tried_codes = CodeIdx)
    /\ [][(raid.tried_codes = CodeIdx /\ ret'.op = "reserve_codes")
             => ret'.reservation.codes = <<>>]_vars

\* C20: in every state reached from a new raid by skip_codes, reserve_codes,
\* try_code and expire_reservations, in any order and with the clock at any
\* value, no code is lost and none is handed out twice: remaining_codes
\* shares no index with tried_codes nor with the codes of any reservation,
\* no index is in two reservations or twice in one, and every index of the
\* code list is in remaining_codes, in tried_codes or in a reservation.
C20_NoLossNoDoubleLease ==
    LET leases == raid.code_reservations
        n == Len(leases)
    IN /\ raid.remaining_codes \cap raid.tried_codes = {}
       /\ \A k \in 1 .. n : raid.remaining_codes \cap LeaseIdx(leases[k]) = {}
       /\ \A j, k \in 1 .. n : j # k => LeaseIdx(leases[j]) \cap LeaseIdx(leases[k]) = {}
       /\ \A k \in 1 .. n : Cardinality(LeaseIdx(leases[k])) = Len(leases[k].codes)
       /\ CodeIdx = raid.remaining_codes \cup raid.tried_codes \cup LeasedIdx(raid)

\* the clock was set back: the younger of two reservations that hold codes
\* expires before the older; one of their codes is tried and codes remain
C20_Witness ==
    LET leases == raid.code_reservations IN
    /\ Len(leases) = 2
    /\ leases[1].codes # <<>> /\ leases[2].codes # <<>>
    /\ leases[2].expires_at < leases[1].expires_at
    /\ LeasedIdx(raid) \cap raid.tried_codes # {}
    /\ raid.remaining_codes # {}

====
